---- MODULE Spec2Model ----
(***************************************************************************)
(* Paper-trading order handling of polypaper: the create-order handler     *)
(* (packages/api/src/routes/orders.ts) running against the PostgreSQL      *)
(* schema (accounts, orders, positions, trade_log, market_candles), with   *)
(* several requests in flight at once.                                     *)
(*                                                                         *)
(* Money, prices and quantities are DECIMAL(18,8) columns.  The model      *)
(* counts prices and money in units of the smallest representable step     *)
(* (1e-8) and quantities in whole units, so every product is exact and     *)
(* the only rounding is the one PostgreSQL applies when the average entry  *)
(* price is stored.                                                        *)
(*                                                                         *)
(* Every await of the handler is one action.  Statements issued on the     *)
(* transaction's client are collected in the request's pending writes and  *)
(* reach the tables at COMMIT; ROLLBACK discards them.  The UPDATE of the   *)
(* account row takes that row's lock until the transaction ends (READ      *)
(* COMMITTED, PostgreSQL's default).                                       *)
(*                                                                         *)
(* Spec is the order handler on a fresh database, SpecLedger the same      *)
(* handler on a database that has been traded on, SpecPnl the three        *)
(* read-outs of unrealized PnL (positions list, account, dashboard) on one *)
(* open position, and SpecRisk the risk state machine of one strategy of   *)
(* one account as section 4.4 of the specification describes it.           *)
(***************************************************************************)
EXTENDS Integers, Sequences, FiniteSets, TLC

\* ------------------------------------------------------------------ bounds
NumClients == 2
MaxPrice == 2
MaxQty == 2
InitialBalance == 3
MaxRequests == 2
MaxCandles == 2
\* the position, the prices and the cash an account may hold when the ledger
\* is observed from a database that has been traded on
LedgerMaxQty == 3
LedgerMaxPrice == 3
LedgerBalance == 6
\* the strategy runner's clock, in hours, the positions it may hold at once
\* and the closing trades it may make
ClockStep == 12
MaxNow == 48
MaxOpenPositions == 2
MaxTrades == 5

\* the backtests created, the trades one makes and the points of its equity
\* curve
MaxBacktests == 2
MaxBacktestTrades == 1
MaxEquityPoints == 1

\* the order rows the cancel route is tried on
MaxOrders == 2

\* the activate and deactivate requests made, and the closing trades the
\* strategy runner books between them
MaxActivations == 3
MaxStateTrades == 1

\* the defaults of the strategy parameters
maxConsecutiveLosses == 3
cooldownHours == 24

\* the range checkIndicatorSanity accepts for adx and rsi
SanityMin == 0
SanityMax == 100

Clients == 1..NumClients
Accounts == {"a1", "a2"}
Markets == {"m1", "m2"}
Prices == 1..MaxPrice
Quantities == 1..MaxQty
StrategyIds == {""}

VARIABLES accounts, orders, positions, trade_log, market_candles, req, nreq,
          view, strategy_state, now, open_positions, decision,
          backtests, indicators, strategy_instances, strategy_state_rows,
          act, nact, reply

vars == <<accounts, orders, positions, trade_log, market_candles, req, nreq,
          view, strategy_state, now, open_positions, decision,
          backtests, indicators, strategy_instances, strategy_state_rows,
          act, nact, reply>>

\* what the order handler never touches: the replies of the GET endpoints and
\* the strategy runner's state
viewVars == <<view>>
riskVars == <<strategy_state, now, open_positions, decision>>

\* the tables and replies of the backtest, indicator, cancel and strategy
\* activation routes, which none of the above touches
backtestVars == <<backtests>>
indicatorVars == <<indicators>>
activationVars == <<strategy_instances, strategy_state_rows, act, nact>>
apiVars == <<backtestVars, indicatorVars, activationVars, reply>>

\* what those routes never touch
ledgerVars == <<accounts, positions, trade_log, market_candles, req, nreq>>

\* ------------------------------------------------------------ request body
\* the bodies a client sends: price is left out (0) on MARKET orders and given
\* on LIMIT orders
CreateOrderBody ==
  {b \in [accountId : Accounts, marketId : Markets, side : {"BUY", "SELL"},
          type : {"MARKET", "LIMIT"}, quantity : Quantities,
          price : {0} \cup Prices, strategyId : StrategyIds] :
     b.type = "MARKET" <=> b.price = 0}

NoBody ==
  [accountId |-> "a1", marketId |-> "m1", side |-> "BUY", type |-> "MARKET",
   quantity |-> 1, price |-> 0, strategyId |-> ""]

\* no GET endpoint has replied yet
NoView == [positions |-> <<>>, account |-> <<>>, dashboard |-> <<>>]

\* the row INSERT INTO strategy_state (account_id, strategy_id) creates: every
\* other column takes its default (cooldown_until and last_loss_at NULL,
\* written <<>>)
NewStrategyState ==
  [consecutive_losses |-> 0, last_loss_at |-> <<>>, cooldown_until |-> <<>>,
   total_trades |-> 0, winning_trades |-> 0, total_pnl |-> 0]

\* the handler's locals and the transaction's pending writes
IdleRequest ==
  [pc |-> "ready", body |-> NoBody, currentPrice |-> 0, fillPrice |-> 0,
   locked |-> FALSE, txOrder |-> <<>>, txBalance |-> <<>>, txPos |-> <<>>,
   txLog |-> <<>>, resp |-> "none"]

\* the awaits between BEGIN and COMMIT
InTxPcs == {"beginFill", "handlePosition", "commit"}

\* const AVAILABLE_STRATEGIES: the ids the activate route accepts; a request
\* may also name an id that is not in it
AVAILABLE_STRATEGIES == {"late-entry-v1"}
RequestedStrategies == AVAILABLE_STRATEGIES \cup {"unknown"}

\* the locals of an activate request: where it stands and what it replied
IdleActivation ==
  [pc |-> "ready", accountId |-> "a1", id |-> "late-entry-v1", resp |-> "none"]

\* no route has replied yet
NoReply == [route |-> "none", id |-> 0, result |-> "none"]

\* nothing was done through the backtest, indicator and activation routes
NoApiState ==
  /\ backtests = <<>>
  /\ indicators = <<>>
  /\ strategy_instances = <<>>
  /\ strategy_state_rows =
       [a \in Accounts, s \in AVAILABLE_STRATEGIES |-> <<>>]
  /\ act = [p \in Clients |-> IdleActivation]
  /\ nact = 0
  /\ reply = NoReply

\* nothing was done through the order handler, the GET read-outs and the
\* strategy runner
NoLedgerState ==
  /\ accounts = [a \in Accounts |->
       [initial_balance |-> InitialBalance, current_balance |-> InitialBalance]]
  /\ positions = <<>>
  /\ trade_log = <<>>
  /\ market_candles = [m \in Markets |-> IF m = "m1" THEN <<1>> ELSE <<>>]
  /\ req = [p \in Clients |-> IdleRequest]
  /\ nreq = 0
  /\ view = NoView
  /\ strategy_state = NewStrategyState
  /\ now = 0
  /\ open_positions = 0
  /\ decision = "none"

\* ------------------------------------------------------------------ reads
\* the mutation of LatestClose: a market without candles is priced at a
\* default of 1 instead of giving no row
LatestCloseOrDefault(m) ==
  IF market_candles[m] = <<>> THEN <<1>>
  ELSE <<market_candles[m][Len(market_candles[m])]>>

\* SELECT close FROM market_candles WHERE market_id = $1
\*   ORDER BY timestamp DESC LIMIT 1   (the rows of the result);
\* market_candles[m] holds the closes of market m in timestamp order
LatestClose(m) ==
  IF market_candles[m] = <<>> THEN <<>>
  ELSE <<market_candles[m][Len(market_candles[m])]>>

\* the number of rows of market_candles
RECURSIVE CandleCount(_, _)
CandleCount(mc, ms) ==
  IF ms = {} THEN 0
  ELSE LET m == CHOOSE x \in ms : TRUE IN Len(mc[m]) + CandleCount(mc, ms \ {m})

\* const fillPrice = type === 'MARKET' ? currentPrice : (price || currentPrice)
fillPrice(type, price, currentPrice) ==
  IF type = "MARKET" THEN currentPrice
  ELSE IF price # 0 THEN price ELSE currentPrice

\* the mutation of OpenPositionIds: the query without AND is_open = true
AnyPositionIds(ps, a, m) ==
  {i \in 1..Len(ps) : ps[i].account_id = a /\ ps[i].market_id = m}

\* SELECT id, quantity, avg_entry_price FROM positions
\*   WHERE account_id = $1 AND market_id = $2 AND is_open = true
OpenPositionIds(ps, a, m) ==
  {i \in 1..Len(ps) : ps[i].account_id = a /\ ps[i].market_id = m /\ ps[i].is_open}

\* CREATE UNIQUE INDEX idx_positions_unique_open
\*   ON positions(account_id, market_id) WHERE is_open = true
idx_positions_unique_open(ps) ==
  \A i, j \in 1..Len(ps) :
    (ps[i].is_open /\ ps[j].is_open /\ ps[i].account_id = ps[j].account_id
       /\ ps[i].market_id = ps[j].market_id) => i = j

\* a value stored in a DECIMAL(18,8) column: num/den rounded to the nearest
\* step, halves away from zero (num >= 0, den > 0 here)
RoundDecimal(num, den) == (2 * num + den) \div (2 * den)


\* ----------------------------------------------------------------- writes
\* the mutation of OrderRow: a LIMIT order is stored as a resting order
OrderRowRestingLimit(b, fp) ==
  [account_id |-> b.accountId, market_id |-> b.marketId,
   strategy_id |-> b.strategyId, side |-> b.side, type |-> b.type,
   quantity |-> b.quantity, price |-> b.price,
   filled_quantity |-> IF b.type = "LIMIT" THEN 0 ELSE b.quantity,
   avg_fill_price |-> fp,
   status |-> IF b.type = "LIMIT" THEN "PENDING" ELSE "FILLED"]

\* the row of INSERT INTO orders (...) VALUES (..., 'FILLED', NOW())
OrderRow(b, fp) ==
  [account_id |-> b.accountId, market_id |-> b.marketId,
   strategy_id |-> b.strategyId, side |-> b.side, type |-> b.type,
   quantity |-> b.quantity, price |-> b.price,
   filled_quantity |-> b.quantity, avg_fill_price |-> fp, status |-> "FILLED"]

\* the mutation of balanceChange: the balance is debited on either side
balanceChangeAlwaysDebit(side, quantity, fp) == 0 - (quantity * fp)

\* const balanceChange = side === 'BUY' ? -(quantity * fillPrice)
\*                                      : (quantity * fillPrice)
balanceChange(side, quantity, fp) ==
  IF side = "BUY" THEN 0 - (quantity * fp) ELSE quantity * fp

\* the mutation of orderCost: the quantity is left out of the cost
orderCostOfOneUnit(quantity, fp) == fp

\* const orderCost = quantity * fillPrice
orderCost(quantity, fp) == quantity * fp

\* the mutation of NewPositionRow: the entry price is the order's limit price
\* ($6 = price instead of fillPrice), which a MARKET order does not have
NewPositionRowAtLimitPrice(b, fp) ==
  [account_id |-> b.accountId, market_id |-> b.marketId,
   strategy_id |-> b.strategyId, side |-> "LONG", quantity |-> b.quantity,
   avg_entry_price |-> b.price, realized_pnl |-> 0, is_open |-> TRUE]

\* the row of INSERT INTO positions (...) VALUES (..., 'LONG', $5, $6, true);
\* realized_pnl takes its column default 0
NewPositionRow(b, fp) ==
  [account_id |-> b.accountId, market_id |-> b.marketId,
   strategy_id |-> b.strategyId, side |-> "LONG", quantity |-> b.quantity,
   avg_entry_price |-> fp, realized_pnl |-> 0, is_open |-> TRUE]

\* the mutation of BuyPosition: the lookup is dropped and the row is inserted
\* into a table that has no unique index on open positions
BuyPositionAlwaysInsert(ps, b, fp, ex, exQty, exAvg) ==
  [op |-> "insert", id |-> 0, row |-> NewPositionRow(b, fp)]

\* the mutation of BuyPosition: the cost of the position is divided by the
\* quantity held before the fill (existingQty instead of newQty)
BuyPositionDividesByOldQty(ps, b, fp, ex, exQty, exAvg) ==
  IF ex # 0
  THEN [op |-> "update", id |-> ex,
        row |-> [ps[ex] EXCEPT !.quantity = exQty + b.quantity,
                   !.avg_entry_price =
                      RoundDecimal((exAvg * exQty) + (fp * b.quantity), exQty)]]
  ELSE IF idx_positions_unique_open(Append(ps, NewPositionRow(b, fp)))
       THEN [op |-> "insert", id |-> 0, row |-> NewPositionRow(b, fp)]
       ELSE [op |-> "error", id |-> 0, row |-> NewPositionRow(b, fp)]

\* the mutation of BuyPosition: the entry price of the position becomes the
\* price of the latest fill
BuyPositionLastPrice(ps, b, fp, ex, exQty, exAvg) ==
  IF ex # 0
  THEN [op |-> "update", id |-> ex,
        row |-> [ps[ex] EXCEPT !.quantity = exQty + b.quantity,
                                !.avg_entry_price = fp]]
  ELSE IF idx_positions_unique_open(Append(ps, NewPositionRow(b, fp)))
       THEN [op |-> "insert", id |-> 0, row |-> NewPositionRow(b, fp)]
       ELSE [op |-> "error", id |-> 0, row |-> NewPositionRow(b, fp)]

\* BUY branch of the position handling: UPDATE the open position that was
\* read, or INSERT a new one; the INSERT is refused by
\* idx_positions_unique_open when an open row of the pair exists
BuyPosition(ps, b, fp, ex, exQty, exAvg) ==
  IF ex # 0
  THEN LET newQty == exQty + b.quantity
           newAvg == RoundDecimal((exAvg * exQty) + (fp * b.quantity), newQty)
       IN [op |-> "update", id |-> ex,
           row |-> [ps[ex] EXCEPT !.quantity = newQty,
                                   !.avg_entry_price = newAvg]]
  ELSE IF idx_positions_unique_open(Append(ps, NewPositionRow(b, fp)))
       THEN [op |-> "insert", id |-> 0, row |-> NewPositionRow(b, fp)]
       ELSE [op |-> "error", id |-> 0, row |-> NewPositionRow(b, fp)]

\* const pnl = (fillPrice - parseFloat(existing.avg_entry_price)) * quantity
SellPnl(fp, exAvg, quantity) == (fp - exAvg) * quantity

\* the mutation of SellPosition: the position is closed only when more than
\* the open quantity is sold (quantity > existingQty)
SellPositionStrict(ps, b, fp, ex, exQty, exAvg) ==
  LET pnl == SellPnl(fp, exAvg, b.quantity)
  IN IF b.quantity > exQty
     THEN [op |-> "update", id |-> ex,
           row |-> [ps[ex] EXCEPT !.is_open = FALSE, !.realized_pnl = pnl]]
     ELSE [op |-> "update", id |-> ex,
           row |-> [ps[ex] EXCEPT !.quantity = @ - b.quantity,
                                   !.realized_pnl = @ + pnl]]

\* the mutation of SellPosition: a reduction books the pnl of the whole
\* position (existingQty instead of quantity)
SellPositionPnlOfWholePosition(ps, b, fp, ex, exQty, exAvg) ==
  IF b.quantity >= exQty
  THEN [op |-> "update", id |-> ex,
        row |-> [ps[ex] EXCEPT !.is_open = FALSE,
                   !.realized_pnl = SellPnl(fp, exAvg, b.quantity)]]
  ELSE [op |-> "update", id |-> ex,
        row |-> [ps[ex] EXCEPT !.quantity = @ - b.quantity,
                   !.realized_pnl = @ + SellPnl(fp, exAvg, exQty)]]

\* SELL branch: close (quantity >= existingQty) or reduce the position read
SellPosition(ps, b, fp, ex, exQty, exAvg) ==
  LET pnl == SellPnl(fp, exAvg, b.quantity)
  IN IF b.quantity >= exQty
     THEN [op |-> "update", id |-> ex,
           row |-> [ps[ex] EXCEPT !.is_open = FALSE, !.realized_pnl = pnl]]
     ELSE [op |-> "update", id |-> ex,
           row |-> [ps[ex] EXCEPT !.quantity = @ - b.quantity,
                                   !.realized_pnl = @ + pnl]]

\* the row of INSERT INTO trade_log (...) VALUES (..., 'POSITION_CLOSE', $4);
\* order_id is filled in when the order row gets its place in the table
TradeLogRow(b, fp, ex, pnl) ==
  [account_id |-> b.accountId, order_id |-> 0, position_id |-> ex,
   action |-> "POSITION_CLOSE", pnl |-> pnl, quantity |-> b.quantity,
   price |-> fp]

\* the pending position write as COMMIT makes it visible
ApplyPositionWrite(ps, w) ==
  IF w.op = "insert" THEN Append(ps, w.row)
  ELSE IF w.op = "update" THEN [ps EXCEPT ![w.id] = w.row]
  ELSE ps

\* the mutation of AccountRowLocked: the UPDATE never waits for the row
NoRowLock(a, self) == FALSE

\* the row lock UPDATE accounts takes: held by a transaction that updated
\* the row and has neither committed nor rolled back
AccountRowLocked(a, self) ==
  \E q \in Clients \ {self} : req[q].locked /\ req[q].body.accountId = a

\* ------------------------------------------------------------------- Init
\* The database right after the schema is loaded and the accounts are created
\* (both with InitialBalance; m1 has its first candle, m2 has none), or that
\* database after one accepted order: a MARKET BUY of MaxQty on (a1, m1) at
\* the first close, 1.
FirstOrder ==
  [accountId |-> "a1", marketId |-> "m1", side |-> "BUY", type |-> "MARKET",
   quantity |-> MaxQty, price |-> 0, strategyId |-> ""]

Init ==
  /\ \E filled \in {f \in BOOLEAN : f => MaxQty * 1 <= InitialBalance} :
       /\ accounts = [a \in Accounts |->
            [initial_balance |-> InitialBalance,
             current_balance |->
               IF filled /\ a = FirstOrder.accountId
               THEN InitialBalance + balanceChange("BUY", MaxQty, 1)
               ELSE InitialBalance]]
       /\ orders = IF filled THEN <<OrderRow(FirstOrder, 1)>> ELSE <<>>
       /\ positions = IF filled THEN <<NewPositionRow(FirstOrder, 1)>>
                      ELSE <<>>
  /\ trade_log = <<>>
  /\ market_candles = [m \in Markets |-> IF m = "m1" THEN <<1>> ELSE <<>>]
  /\ req = [p \in Clients |-> IdleRequest]
  /\ nreq = 0
  /\ view = NoView
  /\ strategy_state = NewStrategyState
  /\ now = 0
  /\ open_positions = 0
  /\ decision = "none"
  /\ NoApiState

\* The database of an account that has been traded on: a1 was created with
\* enough cash for a LIMIT BUY of q units at px on m1, which was accepted and
\* left it LedgerBalance; a2 was created with LedgerBalance.
HeldOrder(q, px) ==
  [accountId |-> "a1", marketId |-> "m1", side |-> "BUY", type |-> "LIMIT",
   quantity |-> q, price |-> px, strategyId |-> ""]

InitLedger ==
  /\ \E q \in 1..LedgerMaxQty, px \in 1..LedgerMaxPrice :
       /\ accounts = [a \in Accounts |->
            [initial_balance |->
               IF a = "a1" THEN LedgerBalance + orderCost(q, px)
               ELSE LedgerBalance,
             current_balance |-> LedgerBalance]]
       /\ orders = <<OrderRow(HeldOrder(q, px), px)>>
       /\ positions = <<NewPositionRow(HeldOrder(q, px), px)>>
  /\ trade_log = <<>>
  /\ market_candles = [m \in Markets |-> IF m = "m1" THEN <<1>> ELSE <<>>]
  /\ req = [p \in Clients |-> IdleRequest]
  /\ nreq = 0
  /\ view = NoView
  /\ strategy_state = NewStrategyState
  /\ now = 0
  /\ open_positions = 0
  /\ decision = "none"
  /\ NoApiState

\* ---------------------------------------------------------------- actions
\* the tables after the pending writes of r are made visible
CommittedAccounts(r) ==
  IF r.txBalance = <<>> THEN accounts
  ELSE [accounts EXCEPT ![r.body.accountId].current_balance =
                           @ + r.txBalance[1]]

CommittedOrders(r) == orders \o r.txOrder

CommittedPositions(r) ==
  IF r.txPos = <<>> THEN positions ELSE ApplyPositionWrite(positions, r.txPos[1])

\* the mutation of CommittedTradeLog: the entry of the fill replaces the
\* entries there were
CommittedTradeLogKeepsLatest(r) ==
  IF r.txLog = <<>> THEN trade_log
  ELSE <<[r.txLog[1] EXCEPT !.order_id = Len(orders) + 1]>>

CommittedTradeLog(r) ==
  IF r.txLog = <<>> THEN trade_log
  ELSE Append(trade_log, [r.txLog[1] EXCEPT !.order_id = Len(orders) + 1])

\* a step of the handler that ends the request with a reply
Reply(p, r) == req' = [req EXCEPT ![p] = [IdleRequest EXCEPT !.resp = r]]

\* the mutation of Rollback: the balance update was issued outside the
\* transaction and stays when the transaction is rolled back
RollbackKeepsBalance(p, err) ==
  /\ Reply(p, "500 " \o err)
  /\ accounts' = CommittedAccounts(req[p])
  /\ UNCHANGED <<orders, positions, trade_log>>

\* catch (err) { ROLLBACK; throw err }: the pending writes of the transaction
\* are dropped, the row lock is released and the error is the reply
Rollback(p, err) ==
  /\ Reply(p, "500 " \o err)
  /\ UNCHANGED <<accounts, orders, positions, trade_log>>

\* INSERT INTO market_candles: a newer candle becomes the latest of its market
NewCandle(m, px) ==
  /\ CandleCount(market_candles, Markets) < MaxCandles
  /\ market_candles' = [market_candles EXCEPT ![m] = Append(@, px)]
  /\ UNCHANGED <<accounts, orders, positions, trade_log, req, nreq>>
  /\ UNCHANGED <<viewVars, riskVars, apiVars>>

\* POST /: the request arrives, on the first connection that is free, and the
\* current market price is read
CreateOrder(p, b) ==
  /\ req[p].pc = "ready"
  /\ \A q \in Clients : q < p => req[q].pc # "ready"
  /\ nreq < MaxRequests
  /\ nreq' = nreq + 1
  /\ IF LatestClose(b.marketId) = <<>>
     THEN Reply(p, "400 No price data available for market")
     ELSE LET cp == LatestClose(b.marketId)[1]
          IN req' = [req EXCEPT ![p] = [IdleRequest EXCEPT !.body = b,
                       !.currentPrice = cp,
                       !.fillPrice = fillPrice(b.type, b.price, cp),
                       !.pc = IF b.side = "BUY" THEN "checkBalance"
                              ELSE "beginFill"]]
  /\ UNCHANGED <<accounts, orders, positions, trade_log, market_candles>>
  /\ UNCHANGED <<viewVars, riskVars, apiVars>>

\* Check account balance for BUY orders
CheckBalance(p) ==
  /\ req[p].pc = "checkBalance"
  /\ LET b == req[p].body
         cost == orderCost(b.quantity, req[p].fillPrice)
     IN IF b.accountId \notin DOMAIN accounts
        THEN Reply(p, "404 Account not found")
        ELSE IF cost > accounts[b.accountId].current_balance
        THEN Reply(p, "400 Insufficient balance")
        ELSE req' = [req EXCEPT ![p].pc = "beginFill"]
  /\ UNCHANGED <<accounts, orders, positions, trade_log, market_candles, nreq>>
  /\ UNCHANGED <<viewVars, riskVars, apiVars>>

\* BEGIN; INSERT INTO orders ... 'FILLED'; UPDATE accounts SET current_balance
\* = current_balance + $1 WHERE id = $2.  The order row stays pending; the
\* UPDATE waits for the account's row lock and then holds it.
\* orders.account_id REFERENCES accounts(id).
BeginFill(p) ==
  /\ req[p].pc = "beginFill"
  /\ LET b == req[p].body
     IN IF b.accountId \notin DOMAIN accounts
        THEN Rollback(p, "foreign key violation")
        ELSE /\ ~AccountRowLocked(b.accountId, p)
             /\ req' = [req EXCEPT ![p].pc = "handlePosition",
                          ![p].locked = TRUE,
                          ![p].txOrder = <<OrderRow(b, req[p].fillPrice)>>,
                          ![p].txBalance =
                             <<balanceChange(b.side, b.quantity, req[p].fillPrice)>>]
             /\ UNCHANGED <<accounts, orders, positions, trade_log>>
  /\ UNCHANGED <<market_candles, nreq, viewVars, riskVars, apiVars>>

\* Handle position: SELECT the open position of the pair (existing =
\* posResult.rows[0]), then the UPDATE or INSERT on positions or the throw of
\* the SELL branch, then INSERT INTO trade_log on a SELL
HandlePosition(p) ==
  /\ req[p].pc = "handlePosition"
  /\ LET b == req[p].body
         fp == req[p].fillPrice
         ids == OpenPositionIds(positions, b.accountId, b.marketId)
     IN \E ex \in (IF ids = {} THEN {0} ELSE ids) :
          LET exQty == IF ex = 0 THEN 0 ELSE positions[ex].quantity
              exAvg == IF ex = 0 THEN 0 ELSE positions[ex].avg_entry_price
          IN IF b.side = "BUY"
             THEN LET w == BuyPosition(positions, b, fp, ex, exQty, exAvg)
                  IN IF w.op = "error"
                     THEN Rollback(p, "unique violation")
                     ELSE /\ req' = [req EXCEPT ![p].pc = "commit",
                                                ![p].txPos = <<w>>]
                          /\ UNCHANGED <<accounts, orders, positions, trade_log>>
             ELSE IF ex = 0
                  THEN Rollback(p, "No open position to sell")
                  ELSE /\ req' = [req EXCEPT ![p].pc = "commit",
                             ![p].txPos =
                                <<SellPosition(positions, b, fp, ex, exQty, exAvg)>>,
                             ![p].txLog =
                                <<TradeLogRow(b, fp, ex,
                                              SellPnl(fp, exAvg, b.quantity))>>]
                       /\ UNCHANGED <<accounts, orders, positions, trade_log>>
  /\ UNCHANGED <<market_candles, nreq, viewVars, riskVars, apiVars>>

\* COMMIT; reply.status(201).send(order)
Commit(p) ==
  /\ req[p].pc = "commit"
  /\ accounts' = CommittedAccounts(req[p])
  /\ orders' = CommittedOrders(req[p])
  /\ positions' = CommittedPositions(req[p])
  /\ trade_log' = CommittedTradeLog(req[p])
  /\ Reply(p, "201")
  /\ UNCHANGED <<market_candles, nreq, viewVars, riskVars, apiVars>>

\* any statement of the transaction may be rejected by the database
QueryFails(p) ==
  /\ req[p].pc \in InTxPcs
  /\ Rollback(p, "query failed")
  /\ UNCHANGED <<market_candles, nreq, viewVars, riskVars, apiVars>>

\* ----------------------------------------------------------- observations
\* GET /positions: unrealizedPnl of an open position at the current price
unrealizedPnl(side, avg, quantity, currentPrice) ==
  IF side \in {"LONG", "YES"} THEN (currentPrice - avg) * quantity
  ELSE (avg - currentPrice) * quantity

\* GET /accounts/:id: COALESCE(SUM(CASE WHEN p.side IN ('LONG','YES') THEN
\* p.quantity * close - p.avg_entry_price * p.quantity ELSE ... END), 0) over
\* the rows 1..n with account_id = $1 AND is_open = true; a row whose market
\* has no candle gives NULL, which SUM skips
RECURSIVE AccountUnrealizedPnl(_, _, _)
AccountUnrealizedPnl(ps, a, n) ==
  IF n = 0 THEN 0
  ELSE AccountUnrealizedPnl(ps, a, n - 1) +
       (IF ps[n].account_id = a /\ ps[n].is_open
           /\ LatestClose(ps[n].market_id) # <<>>
        THEN LET close == LatestClose(ps[n].market_id)[1]
             IN IF ps[n].side \in {"LONG", "YES"}
                THEN (ps[n].quantity * close)
                       - (ps[n].avg_entry_price * ps[n].quantity)
                ELSE (ps[n].avg_entry_price * ps[n].quantity)
                       - (ps[n].quantity * close)
        ELSE 0)

\* equity: parseFloat(account.current_balance) + unrealizedPnl
AccountEquity(a) ==
  accounts[a].current_balance + AccountUnrealizedPnl(positions, a, Len(positions))

\* the mutation of DashboardPositionIds: the query without AND p.is_open = true
DashboardAllPositionIds(ps, a) == {i \in 1..Len(ps) : ps[i].account_id = a}

\* GET /dashboard: SELECT p.* FROM positions p JOIN markets m ...
\*   WHERE p.account_id = $1 AND p.is_open = true
DashboardPositionIds(ps, a) ==
  {i \in 1..Len(ps) : ps[i].account_id = a /\ ps[i].is_open}

\* GET /dashboard: unrealizedPnl += (currentPrice - avg_entry_price) * quantity
\* over the rows read, currentPrice = priceResult.rows[0]?.price ||
\* pos.avg_entry_price
RECURSIVE DashboardUnrealizedPnl(_, _)
DashboardUnrealizedPnl(ps, ids) ==
  IF ids = {} THEN 0
  ELSE LET i == CHOOSE x \in ids : TRUE
           currentPrice == IF LatestClose(ps[i].market_id) = <<>>
                           THEN ps[i].avg_entry_price
                           ELSE LatestClose(ps[i].market_id)[1]
       IN ((currentPrice - ps[i].avg_entry_price) * ps[i].quantity)
            + DashboardUnrealizedPnl(ps, ids \ {i})

\* const equity = parseFloat(account.current_balance) + unrealizedPnl
DashboardEquity(a) ==
  accounts[a].current_balance
    + DashboardUnrealizedPnl(positions, DashboardPositionIds(positions, a))

\* ------------------------------------------------- the three PnL read-outs
\* positions.side CHECK (side IN ('LONG', 'SHORT', 'YES', 'NO'))
PositionSides == {"LONG", "SHORT", "YES", "NO"}

\* GET /positions: currentPrice = priceResult.rows[0]?.price ||
\* pos.avg_entry_price, then unrealizedPnl of the open position ps[i]
PositionsUnrealizedPnl(ps, i) ==
  LET currentPrice == IF LatestClose(ps[i].market_id) = <<>>
                      THEN ps[i].avg_entry_price
                      ELSE LatestClose(ps[i].market_id)[1]
  IN unrealizedPnl(ps[i].side, ps[i].avg_entry_price, ps[i].quantity,
                   currentPrice)

\* A database holding one open position of a1 on m1, of any side the column
\* allows, with m1 priced or not
InitPnl ==
  /\ accounts = [a \in Accounts |->
       [initial_balance |-> InitialBalance, current_balance |-> InitialBalance]]
  /\ orders = <<>>
  /\ \E sd \in PositionSides, q \in 1..LedgerMaxQty, px \in 1..LedgerMaxPrice :
       positions = <<[account_id |-> "a1", market_id |-> "m1",
                      strategy_id |-> "", side |-> sd, quantity |-> q,
                      avg_entry_price |-> px, realized_pnl |-> 0,
                      is_open |-> TRUE]>>
  /\ trade_log = <<>>
  /\ \E c \in {<<>>} \cup {<<px>> : px \in 1..LedgerMaxPrice} :
       market_candles = [m \in Markets |-> IF m = "m1" THEN c ELSE <<>>]
  /\ req = [p \in Clients |-> IdleRequest]
  /\ nreq = 0
  /\ view = NoView
  /\ strategy_state = NewStrategyState
  /\ now = 0
  /\ open_positions = 0
  /\ decision = "none"
  /\ NoApiState

\* GET /positions?accountId=a1&open=true replies with the unrealizedPnl of
\* each open position
GetPositions ==
  /\ view.positions = <<>>
  /\ view' = [view EXCEPT !.positions =
                <<PositionsUnrealizedPnl(positions, 1)>>]
  /\ UNCHANGED <<accounts, orders, positions, trade_log, market_candles, req,
                 nreq, riskVars, apiVars>>

\* GET /accounts/a1 replies with unrealized_pnl and equity
GetAccount ==
  /\ view.account = <<>>
  /\ view' = [view EXCEPT !.account =
                <<AccountUnrealizedPnl(positions, "a1", Len(positions))>>]
  /\ UNCHANGED <<accounts, orders, positions, trade_log, market_candles, req,
                 nreq, riskVars, apiVars>>

\* GET /dashboard?accountId=a1 replies with the unrealizedPnl it summed
GetDashboard ==
  /\ view.dashboard = <<>>
  /\ view' = [view EXCEPT !.dashboard =
                <<DashboardUnrealizedPnl(positions,
                     DashboardPositionIds(positions, "a1"))>>]
  /\ UNCHANGED <<accounts, orders, positions, trade_log, market_candles, req,
                 nreq, riskVars, apiVars>>

NextPnl ==
  \/ GetPositions
  \/ GetAccount
  \/ GetDashboard

\* the three read-outs on one position at one price
SpecPnl == InitPnl /\ [][NextPnl]_vars

\* ------------------------------------------------------ RiskStateMachine
\* the realized pnl a closing trade may have
TradePnls == {0 - 1, 0, 1}

\* COOLDOWN: cooldown_until is set and not yet reached; ACTIVE otherwise
\* (evaluated when asked, not by a timer)
InCooldown(s, t) == s.cooldown_until # <<>> /\ t < s.cooldown_until[1]

\* the mutation of OnClosingTrade: the run of losses is not restarted by a
\* close that is not a loss
OnClosingTradeNoRestart(s, pnl, t) ==
  LET losses == IF pnl < 0 THEN s.consecutive_losses + 1
                ELSE s.consecutive_losses
  IN [s EXCEPT !.consecutive_losses = losses,
               !.last_loss_at = IF pnl < 0 THEN <<t>> ELSE @,
               !.total_trades = @ + 1,
               !.winning_trades = IF pnl > 0 THEN @ + 1 ELSE @,
               !.total_pnl = @ + pnl,
               !.cooldown_until =
                  IF ~InCooldown(s, t) /\ losses >= maxConsecutiveLosses
                  THEN <<t + cooldownHours>> ELSE @]

\* the update after a closing trade with realized pnl at time t, and the
\* transition ACTIVE -> COOLDOWN when consecutive_losses reaches
\* maxConsecutiveLosses
OnClosingTrade(s, pnl, t) ==
  LET losses == IF pnl < 0 THEN s.consecutive_losses + 1 ELSE 0
  IN [s EXCEPT !.consecutive_losses = losses,
               !.last_loss_at = IF pnl < 0 THEN <<t>> ELSE @,
               !.total_trades = @ + 1,
               !.winning_trades = IF pnl > 0 THEN @ + 1 ELSE @,
               !.total_pnl = @ + pnl,
               !.cooldown_until =
                  IF ~InCooldown(s, t) /\ losses >= maxConsecutiveLosses
                  THEN <<t + cooldownHours>> ELSE @]

\* the mutation of EntryPermitted: the state is not consulted
EntryAlwaysPermitted(s, t) == TRUE

\* permission for a new entry: denied while in COOLDOWN
EntryPermitted(s, t) == ~InCooldown(s, t)

\* the dashboard's badge of a strategy: s.cooldownUntil ? 'COOLDOWN' : 'ACTIVE'
StrategyBadge(s) == IF s.cooldown_until # <<>> THEN "COOLDOWN" ELSE "ACTIVE"

\* a strategy that has just been activated for an account, on a fresh database
InitRisk ==
  /\ accounts = [a \in Accounts |->
       [initial_balance |-> InitialBalance, current_balance |-> InitialBalance]]
  /\ orders = <<>>
  /\ positions = <<>>
  /\ trade_log = <<>>
  /\ market_candles = [m \in Markets |-> IF m = "m1" THEN <<1>> ELSE <<>>]
  /\ req = [p \in Clients |-> IdleRequest]
  /\ nreq = 0
  /\ view = NoView
  /\ strategy_state = NewStrategyState
  /\ now = 0
  /\ open_positions = 0
  /\ decision = "none"
  /\ NoApiState

\* time passes
Tick ==
  /\ now + ClockStep <= MaxNow
  /\ now' = now + ClockStep
  /\ UNCHANGED <<accounts, orders, positions, trade_log, market_candles, req,
                 nreq, viewVars, apiVars, strategy_state, open_positions, decision>>

\* the strategy wants a new position and asks for permission
EntryRequest ==
  /\ open_positions < MaxOpenPositions
  /\ IF EntryPermitted(strategy_state, now)
     THEN open_positions' = open_positions + 1 /\ decision' = "entry"
     ELSE open_positions' = open_positions /\ decision' = "denied"
  /\ UNCHANGED <<accounts, orders, positions, trade_log, market_candles, req,
                 nreq, viewVars, apiVars, strategy_state, now>>

\* the strategy exits a position: always permitted; the close is a closing
\* trade with its realized pnl
ExitRequest(pnl) ==
  /\ open_positions > 0
  /\ strategy_state.total_trades < MaxTrades
  /\ open_positions' = open_positions - 1
  /\ decision' = "exit"
  /\ strategy_state' = OnClosingTrade(strategy_state, pnl, now)
  /\ UNCHANGED <<accounts, orders, positions, trade_log, market_candles, req,
                 nreq, viewVars, apiVars, now>>

\* the strategy reduces a position, which stays open: always permitted
ReduceRequest ==
  /\ open_positions > 0
  /\ decision' = "reduce"
  /\ UNCHANGED <<accounts, orders, positions, trade_log, market_candles, req,
                 nreq, viewVars, apiVars, strategy_state, now, open_positions>>

NextRisk ==
  \/ Tick
  \/ EntryRequest
  \/ \E pnl \in TradePnls : ExitRequest(pnl)
  \/ ReduceRequest

\* one strategy of one account under the risk state machine
SpecRisk == InitRisk /\ [][NextRisk]_vars

Next ==
  \/ \E m \in Markets, px \in Prices : NewCandle(m, px)
  \/ \E p \in Clients, b \in CreateOrderBody : CreateOrder(p, b)
  \/ \E p \in Clients : CheckBalance(p)
  \/ \E p \in Clients : BeginFill(p)
  \/ \E p \in Clients : HandlePosition(p)
  \/ \E p \in Clients : Commit(p)
  \/ \E p \in Clients : QueryFails(p)

Spec == Init /\ [][Next]_vars

\* the order handler on a database that has been traded on
SpecLedger == InitLedger /\ [][Next]_vars

\* ------------------------------------------------------------- backtests
\* backtests[id] is what SELECT * FROM backtests WHERE id = $1 returns: no row
\* before the id is generated and after the row is deleted, one row
\* otherwise. trade_count and equity_curve are NULL (NullColumn) until the
\* engine writes them; equity_curve is held as the number of its points and
\* metadata.monte_carlo says whether the key is present.
NullColumn == 0 - 1

BacktestRows(id) == IF id \in 1..Len(backtests) THEN backtests[id] ELSE <<>>

\* the mutation of NewBacktestRow: the record is inserted as already running
NewBacktestRowRunning(run_monte_carlo) ==
  [status |-> "RUNNING", trade_count |-> NullColumn,
   equity_curve |-> NullColumn, error_message |-> "",
   metadata |-> [run_monte_carlo |-> run_monte_carlo, monte_carlo |-> FALSE]]

\* INSERT INTO backtests (..., status, metadata) VALUES (..., 'PENDING', $7)
NewBacktestRow(run_monte_carlo) ==
  [status |-> "PENDING", trade_count |-> NullColumn,
   equity_curve |-> NullColumn, error_message |-> "",
   metadata |-> [run_monte_carlo |-> run_monte_carlo, monte_carlo |-> FALSE]]

\* POST /backtests
CreateBacktest(complete, run_monte_carlo) ==
  /\ Len(backtests) < MaxBacktests
  /\ IF ~complete
     THEN /\ reply' = [route |-> "POST /backtests", id |-> 0,
                       result |-> "Missing required fields"]
          /\ UNCHANGED backtests
     ELSE /\ backtests' = Append(backtests, <<NewBacktestRow(run_monte_carlo)>>)
          /\ reply' = [route |-> "POST /backtests", id |-> Len(backtests) + 1,
                       result |-> "PENDING"]
  /\ UNCHANGED <<ledgerVars, orders, viewVars, riskVars, indicatorVars,
                 activationVars>>

\* the INSERT of POST /backtests is refused by the database: the request
\* ends with a 500 and no row
CreateBacktestFails ==
  /\ Len(backtests) < MaxBacktests
  /\ reply' = [route |-> "POST /backtests", id |-> 0, result |-> "500"]
  /\ UNCHANGED <<ledgerVars, orders, viewVars, riskVars, backtestVars,
                 indicatorVars, activationVars>>

\* what POST /backtests/:id/monte-carlo answers on the rows it selected
MonteCarloReply(rows) ==
  IF rows = <<>> THEN "Backtest not found"
  ELSE IF rows[1].equity_curve = NullColumn \/ rows[1].equity_curve = 0
       THEN "No equity curve available for Monte Carlo"
       ELSE "Monte Carlo analysis queued"

\* POST /backtests/:id/monte-carlo
MonteCarloRequest(id) ==
  /\ reply' = [route |-> "POST /backtests/:id/monte-carlo", id |-> id,
               result |-> MonteCarloReply(BacktestRows(id))]
  /\ UNCHANGED <<ledgerVars, orders, viewVars, riskVars, backtestVars,
                 indicatorVars, activationVars>>

\* DELETE /backtests/:id
DeleteBacktest(id) ==
  /\ IF BacktestRows(id) = <<>>
     THEN /\ reply' = [route |-> "DELETE /backtests/:id", id |-> id,
                       result |-> "Backtest not found"]
          /\ UNCHANGED backtests
     ELSE /\ backtests' = [backtests EXCEPT ![id] = <<>>]
          /\ reply' = [route |-> "DELETE /backtests/:id", id |-> id,
                       result |-> "deleted"]
  /\ UNCHANGED <<ledgerVars, orders, viewVars, riskVars, indicatorVars,
                 activationVars>>

\* the job runner starts the BacktestEngine on a PENDING backtest
StartBacktest(id) ==
  /\ BacktestRows(id) # <<>>
  /\ backtests[id][1].status = "PENDING"
  /\ backtests' = [backtests EXCEPT ![id] = <<[@[1] EXCEPT !.status = "RUNNING"]>>]
  /\ UNCHANGED <<ledgerVars, orders, viewVars, riskVars, indicatorVars,
                 activationVars, reply>>

\* the engine commits its terminal results: n trades and an equity curve of
\* one point per bar replayed (no trade without a bar)
CompleteBacktest(id, n, points) ==
  /\ BacktestRows(id) # <<>>
  /\ backtests[id][1].status = "RUNNING"
  /\ n > 0 => points > 0
  /\ backtests' = [backtests EXCEPT ![id] =
       <<[@[1] EXCEPT !.status = "COMPLETED", !.trade_count = n,
                      !.equity_curve = points]>>]
  /\ UNCHANGED <<ledgerVars, orders, viewVars, riskVars, indicatorVars,
                 activationVars, reply>>

\* an error or a cancellation during the replay marks the backtest FAILED
\* with an error_message; the part of the equity curve accumulated so far is
\* kept
FailBacktest(id, points) ==
  /\ BacktestRows(id) # <<>>
  /\ backtests[id][1].status = "RUNNING"
  /\ backtests' = [backtests EXCEPT ![id] =
       <<[@[1] EXCEPT !.status = "FAILED", !.error_message = "error",
                      !.equity_curve = points]>>]
  /\ UNCHANGED <<ledgerVars, orders, viewVars, riskVars, indicatorVars,
                 activationVars, reply>>

\* the MonteCarloAnalyzer merges its results into the metadata of a completed
\* backtest that has trades and an equity curve
AttachMonteCarlo(id) ==
  /\ BacktestRows(id) # <<>>
  /\ backtests[id][1].status = "COMPLETED"
  /\ backtests[id][1].trade_count > 0
  /\ backtests[id][1].equity_curve > 0
  /\ ~backtests[id][1].metadata.monte_carlo
  /\ backtests' = [backtests EXCEPT ![id] =
       <<[@[1] EXCEPT !.metadata.monte_carlo = TRUE]>>]
  /\ UNCHANGED <<ledgerVars, orders, viewVars, riskVars, indicatorVars,
                 activationVars, reply>>

InitBacktest ==
  /\ NoLedgerState
  /\ orders = <<>>
  /\ NoApiState

NextBacktest ==
  \/ \E complete, mc \in BOOLEAN : CreateBacktest(complete, mc)
  \/ CreateBacktestFails
  \/ \E id \in 1..MaxBacktests : MonteCarloRequest(id)
  \/ \E id \in 1..MaxBacktests : DeleteBacktest(id)
  \/ \E id \in 1..MaxBacktests : StartBacktest(id)
  \/ \E id \in 1..MaxBacktests, n \in 0..MaxBacktestTrades,
        points \in 0..MaxEquityPoints : CompleteBacktest(id, n, points)
  \/ \E id \in 1..MaxBacktests, points \in 0..MaxEquityPoints :
       FailBacktest(id, points)
  \/ \E id \in 1..MaxBacktests : AttachMonteCarlo(id)

\* the backtest routes and the job runner on the backtests table
SpecBacktest == InitBacktest /\ [][NextBacktest]_vars

\* --------------------------------------------------------- cancel an order
\* the values of orders.status the CHECK constraint admits
OrderStatuses ==
  {"PENDING", "OPEN", "PARTIALLY_FILLED", "FILLED", "CANCELLED", "REJECTED"}

\* the mutation of CancellableIds: the UPDATE without its status condition
AnyOrderIds(os, id) == {i \in 1..Len(os) : i = id}

\* the rows UPDATE orders ... WHERE id = $1 AND status = 'PENDING' matches
CancellableIds(os, id) ==
  {i \in 1..Len(os) : i = id /\ os[i].status = "PENDING"}

\* DELETE /orders/:id
CancelOrder(id) ==
  /\ IF CancellableIds(orders, id) = {}
     THEN /\ reply' = [route |-> "DELETE /orders/:id", id |-> id,
                       result |-> "404 Order not found or cannot be cancelled"]
          /\ UNCHANGED orders
     ELSE /\ orders' = [i \in 1..Len(orders) |->
                          IF i \in CancellableIds(orders, id)
                          THEN [orders[i] EXCEPT !.status = "CANCELLED"]
                          ELSE orders[i]]
          /\ reply' = [route |-> "DELETE /orders/:id", id |-> id,
                       result |-> "CANCELLED"]
  /\ UNCHANGED <<ledgerVars, viewVars, riskVars, backtestVars, indicatorVars,
                 activationVars>>

\* the orders table holds MaxOrders rows, each in any status the CHECK
\* constraint admits
InitCancel ==
  /\ NoLedgerState
  /\ \E st \in [1..MaxOrders -> OrderStatuses] :
       orders = [i \in 1..MaxOrders |->
                   [OrderRow(FirstOrder, 1) EXCEPT !.status = st[i]]]
  /\ NoApiState

\* cancel requests, for the rows and for an id that is not in the table
NextCancel == \E id \in 1..(MaxOrders + 1) : CancelOrder(id)

\* the cancel route on the orders table
SpecCancel == InitCancel /\ [][NextCancel]_vars

\* ------------------------------------------------------ indicator sanity
\* a value of a DECIMAL column as the driver hands it over: NULL, 'NaN' or the
\* text of a number
NullValue == [kind |-> "null", n |-> 0]
NaNValue == [kind |-> "NaN", n |-> 0]
NumberValue(n) == [kind |-> "number", n |-> n]

IndicatorNumbers ==
  {SanityMin - 1, SanityMin, SanityMin + 1, 50, SanityMax, SanityMax + 1}
IndicatorValues ==
  {NullValue, NaNValue} \cup {NumberValue(n) : n \in IndicatorNumbers}

\* parseFloat(x) || 0: NULL and 'NaN' parse to NaN, which is falsy, as is 0
parseFloatOrZero(v) == IF v.kind = "number" THEN v.n ELSE 0

\* the mutation of checkIndicatorSanity: only the upper end of the range is
\* checked
checkIndicatorSanityUpperOnly(row) ==
  LET adx == parseFloatOrZero(row.adx)
      rsi == parseFloatOrZero(row.rsi)
      alerts == (IF adx > SanityMax
                 THEN <<[name |-> "ADX", value |-> adx]>> ELSE <<>>)
                \o (IF rsi > SanityMax
                    THEN <<[name |-> "RSI", value |-> rsi]>> ELSE <<>>)
  IN  [valid |-> Len(alerts) = 0, alerts |-> alerts]

\* checkIndicatorSanity(indicators), for a row that is there
checkIndicatorSanity(row) ==
  LET adx == parseFloatOrZero(row.adx)
      rsi == parseFloatOrZero(row.rsi)
      alerts == (IF adx < SanityMin \/ adx > SanityMax
                 THEN <<[name |-> "ADX", value |-> adx]>> ELSE <<>>)
                \o (IF rsi < SanityMin \/ rsi > SanityMax
                    THEN <<[name |-> "RSI", value |-> rsi]>> ELSE <<>>)
  IN  [valid |-> Len(alerts) = 0, alerts |-> alerts]

\* the reply of GET /indicators before any request
NoIndicatorsReply ==
  [route |-> "none", id |-> 0,
   result |-> [indicators |-> <<>>, sanity |-> "none", alerts |-> <<>>]]

\* GET /indicators: the latest row of the market and interval, with the
\* verdict of the sanity check; alerts is left out (<<>>) when there is none
GetIndicators ==
  /\ reply' =
       IF indicators = <<>>
       THEN [route |-> "GET /indicators", id |-> 0,
             result |-> [indicators |-> <<>>,
                         sanity |-> "No indicators computed yet",
                         alerts |-> <<>>]]
       ELSE LET sanity == checkIndicatorSanity(indicators[1])
            IN  [route |-> "GET /indicators", id |-> 0,
                 result |-> [indicators |-> indicators,
                             sanity |-> IF sanity.valid THEN "ok" ELSE "warning",
                             alerts |-> sanity.alerts]]
  /\ UNCHANGED <<ledgerVars, orders, viewVars, riskVars, backtestVars,
                 indicatorVars, activationVars>>

\* the latest row of market_indicators is any row, or there is none
InitIndicators ==
  /\ NoLedgerState
  /\ orders = <<>>
  /\ backtests = <<>>
  /\ indicators \in {<<>>} \cup
       {<<[adx |-> adx, rsi |-> rsi]>> : adx, rsi \in IndicatorValues}
  /\ strategy_instances = <<>>
  /\ strategy_state_rows =
       [a \in Accounts, s \in AVAILABLE_STRATEGIES |-> <<>>]
  /\ act = [p \in Clients |-> IdleActivation]
  /\ nact = 0
  /\ reply = NoIndicatorsReply

NextIndicators == GetIndicators

\* GET /indicators on the rows of market_indicators
SpecIndicators == InitIndicators /\ [][NextIndicators]_vars

\* --------------------------------------------------- strategy activation
\* strategy_instances holds the rows in the order of their insertion;
\* strategy_state_rows[a, s] is the row of strategy_state with
\* (account_id, strategy_id) = (a, s), of which UNIQUE(account_id,
\* strategy_id) allows one: <<>> or <<row>>

\* SELECT id FROM strategy_instances
\*   WHERE account_id = $1 AND strategy_id = $2 AND is_active = true
ActiveInstanceIds(si, a, s) ==
  {i \in 1..Len(si) :
     si[i].account_id = a /\ si[i].strategy_id = s /\ si[i].is_active}

\* the rows UPDATE strategy_instances ... WHERE account_id = $1 AND
\* strategy_id = $2 matches
InstanceIds(si, a, s) ==
  {i \in 1..Len(si) : si[i].account_id = a /\ si[i].strategy_id = s}

\* POST /:id/activate up to its first query: the strategy is looked up, then
\* the instances of the pair that are active are selected
Activate(p, a, s) ==
  /\ act[p].pc = "ready"
  /\ nact < MaxActivations
  /\ nact' = nact + 1
  /\ act' = [act EXCEPT ![p] =
       IF s \notin AVAILABLE_STRATEGIES
       THEN [pc |-> "ready", accountId |-> a, id |-> s,
             resp |-> "404 Strategy not found"]
       ELSE IF ActiveInstanceIds(strategy_instances, a, s) # {}
       THEN [pc |-> "ready", accountId |-> a, id |-> s,
             resp |-> "400 Strategy already active for this account"]
       ELSE [pc |-> "insertInstance", accountId |-> a, id |-> s,
             resp |-> "none"]]
  /\ UNCHANGED <<strategy_instances, strategy_state_rows>>
  /\ UNCHANGED <<ledgerVars, orders, viewVars, riskVars, backtestVars,
                 indicatorVars, reply>>

\* INSERT INTO strategy_instances (id, account_id, strategy_id, parameters,
\*   is_active) VALUES ($1, $2, $3, $4, true)
InsertInstance(p) ==
  /\ act[p].pc = "insertInstance"
  /\ strategy_instances' = Append(strategy_instances,
       [account_id |-> act[p].accountId, strategy_id |-> act[p].id,
        is_active |-> TRUE])
  /\ act' = [act EXCEPT ![p].pc = "insertState"]
  /\ UNCHANGED <<strategy_state_rows, nact>>
  /\ UNCHANGED <<ledgerVars, orders, viewVars, riskVars, backtestVars,
                 indicatorVars, reply>>

\* INSERT INTO strategy_state (account_id, strategy_id) VALUES ($1, $2)
\*   ON CONFLICT (account_id, strategy_id) DO NOTHING, and the 201 reply
InsertState(p) ==
  /\ act[p].pc = "insertState"
  /\ strategy_state_rows' =
       [strategy_state_rows EXCEPT ![act[p].accountId, act[p].id] =
          IF @ = <<>> THEN <<NewStrategyState>> ELSE @]
  /\ act' = [act EXCEPT ![p].pc = "ready", ![p].resp = "201"]
  /\ UNCHANGED <<strategy_instances, nact>>
  /\ UNCHANGED <<ledgerVars, orders, viewVars, riskVars, backtestVars,
                 indicatorVars, reply>>

\* POST /:id/deactivate
Deactivate(p, a, s) ==
  /\ act[p].pc = "ready"
  /\ nact < MaxActivations
  /\ nact' = nact + 1
  /\ strategy_instances' =
       [i \in 1..Len(strategy_instances) |->
          IF i \in InstanceIds(strategy_instances, a, s)
          THEN [strategy_instances[i] EXCEPT !.is_active = FALSE]
          ELSE strategy_instances[i]]
  /\ act' = [act EXCEPT ![p] =
       [pc |-> "ready", accountId |-> a, id |-> s,
        resp |-> IF InstanceIds(strategy_instances, a, s) = {}
                 THEN "404 Active strategy instance not found"
                 ELSE "200"]]
  /\ UNCHANGED strategy_state_rows
  /\ UNCHANGED <<ledgerVars, orders, viewVars, riskVars, backtestVars,
                 indicatorVars, reply>>

\* the strategy runner books a closing trade of profit or loss pnl on the
\* state of a pair that has an active instance
RecordClosingTrade(a, s, pnl) ==
  /\ ActiveInstanceIds(strategy_instances, a, s) # {}
  /\ strategy_state_rows[a, s] # <<>>
  /\ strategy_state_rows[a, s][1].total_trades < MaxStateTrades
  /\ strategy_state_rows' =
       [strategy_state_rows EXCEPT ![a, s] = <<OnClosingTrade(@[1], pnl, now)>>]
  /\ UNCHANGED <<strategy_instances, act, nact>>
  /\ UNCHANGED <<ledgerVars, orders, viewVars, riskVars, backtestVars,
                 indicatorVars, reply>>

InitActivation ==
  /\ NoLedgerState
  /\ orders = <<>>
  /\ NoApiState

NextActivation ==
  \/ \E p \in Clients, a \in Accounts, s \in RequestedStrategies :
       Activate(p, a, s)
  \/ \E p \in Clients : InsertInstance(p)
  \/ \E p \in Clients : InsertState(p)
  \/ \E p \in Clients, a \in Accounts, s \in RequestedStrategies :
       Deactivate(p, a, s)
  \/ \E a \in Accounts, s \in AVAILABLE_STRATEGIES, pnl \in TradePnls :
       RecordClosingTrade(a, s, pnl)

\* the activate and deactivate routes, with the strategy runner in between
SpecActivation == InitActivation /\ [][NextActivation]_vars

\* ================================================================= claims
\* what the claims read off a state
HasOpenPosition(a, m) ==
  \E i \in 1..Len(positions) :
    positions[i].account_id = a /\ positions[i].market_id = m /\ positions[i].is_open

\* client p ends its request in this step with the reply r
Replies(p, r) == req[p].pc # "ready" /\ req'[p].pc = "ready" /\ req'[p].resp = r

\* client p commits its fill in this step
Commits(p) == req[p].pc = "commit" /\ Replies(p, "201")

TablesUnchanged ==
  /\ accounts' = accounts
  /\ orders' = orders
  /\ positions' = positions
  /\ trade_log' = trade_log

\* C1: in every reachable state, whatever orders were accepted or rejected,
\* each (account_id, market_id) pair has at most one position with
\* is_open = true.
C1_OneOpenPositionPerPair ==
  \A i, j \in 1..Len(positions) :
    (positions[i].is_open /\ positions[j].is_open
       /\ positions[i].account_id = positions[j].account_id
       /\ positions[i].market_id = positions[j].market_id) => i = j

\* a BUY was filled into a pair that already had an open position: the open
\* position holds more than one order can buy
C1_Witness ==
  \E i \in 1..Len(positions) :
    positions[i].is_open /\ positions[i].quantity > MaxQty

\* C2: a fill is all-or-nothing.  A step that changes any of accounts,
\* orders, positions, trade_log is the commit of one request and changes them
\* together: exactly one order row is added, the balance of that order's
\* account changes, a position changes, and a trade_log entry for that order
\* is added exactly when it is a SELL; a request that fails inside its
\* transaction changes none of the four.
C2_AllOrNothing ==
  [][ /\ ~TablesUnchanged =>
          /\ Len(orders') = Len(orders) + 1
          /\ \A k \in 1..Len(orders) : orders'[k] = orders[k]
          /\ LET o == orders'[Len(orders')]
             IN /\ accounts'[o.account_id].current_balance
                     # accounts[o.account_id].current_balance
                /\ positions' # positions
                /\ IF o.side = "SELL"
                   THEN /\ Len(trade_log') = Len(trade_log) + 1
                        /\ trade_log'[Len(trade_log')].order_id = Len(orders')
                   ELSE trade_log' = trade_log
      /\ \A p \in Clients :
           (req[p].pc \in InTxPcs /\ req'[p].pc = "ready" /\ req'[p].resp # "201")
             => TablesUnchanged
    ]_vars

\* one request failed inside its transaction with its order row and balance
\* update pending, and another one committed
C2_Witness ==
  \E p, q \in Clients :
    /\ req[p].pc = "ready" /\ req[p].resp = "500 query failed"
    /\ req[q].pc = "ready" /\ req[q].resp = "201"
    /\ Len(trade_log) > 0

\* C3: SELL orders on one (account, market) in flight together are applied
\* one after the other.  When a SELL commits, the position, the balance and
\* the trade_log become what the SELL branch gives when it is run, with the
\* order's fill price, on the open position as it is at that moment (not as
\* it was when an overlapping request read it); and a SELL fails for want of
\* an open position only when there is none at that moment.
C3_SellsAppliedOneAfterTheOther ==
  [][ \A p \in Clients :
        LET b == req[p].body
            fp == req[p].fillPrice
        IN /\ (Commits(p) /\ b.side = "SELL") =>
                \E ex \in 1..Len(positions) :
                  /\ positions[ex].account_id = b.accountId
                  /\ positions[ex].market_id = b.marketId
                  /\ positions[ex].is_open
                  /\ positions' =
                       [positions EXCEPT ![ex] =
                          IF b.quantity >= positions[ex].quantity
                          THEN [@ EXCEPT !.is_open = FALSE,
                                  !.realized_pnl =
                                     (fp - positions[ex].avg_entry_price) * b.quantity]
                          ELSE [@ EXCEPT !.quantity = @ - b.quantity,
                                  !.realized_pnl =
                                     @ + (fp - positions[ex].avg_entry_price) * b.quantity]]
                  /\ accounts' = [accounts EXCEPT ![b.accountId].current_balance =
                                     @ + (b.quantity * fp)]
                  /\ trade_log' = Append(trade_log,
                       [account_id |-> b.accountId, order_id |-> Len(orders) + 1,
                        position_id |-> ex, action |-> "POSITION_CLOSE",
                        pnl |-> (fp - positions[ex].avg_entry_price) * b.quantity,
                        quantity |-> b.quantity, price |-> fp])
           /\ Replies(p, "500 No open position to sell") =>
                ~HasOpenPosition(b.accountId, b.marketId)
    ]_vars

\* two SELLs on the same open position are inside their transactions at once:
\* one is about to commit, the other has been received and waits for the row
C3_Witness ==
  \E p, q \in Clients :
    /\ p # q
    /\ req[p].pc = "commit" /\ req[q].pc = "beginFill"
    /\ req[p].body.side = "SELL" /\ req[q].body.side = "SELL"
    /\ req[p].body.accountId = req[q].body.accountId
    /\ req[p].body.marketId = req[q].body.marketId
    /\ HasOpenPosition(req[p].body.accountId, req[p].body.marketId)

\* the sum of unrealizedPnl over the open positions of account a among ids,
\* each at the latest close of its market
RECURSIVE OpenUnrealizedPnl(_, _)
OpenUnrealizedPnl(a, ids) ==
  IF ids = {} THEN 0
  ELSE LET i == CHOOSE x \in ids : TRUE
       IN (IF positions[i].account_id = a /\ positions[i].is_open
              /\ market_candles[positions[i].market_id] # <<>>
           THEN unrealizedPnl(positions[i].side, positions[i].avg_entry_price,
                  positions[i].quantity,
                  market_candles[positions[i].market_id]
                     [Len(market_candles[positions[i].market_id])])
           ELSE 0) + OpenUnrealizedPnl(a, ids \ {i})

C5_SellWithoutPositionFails ==
  [][ \A p \in Clients :
        LET b == req[p].body
        IN /\ (req[p].pc = "handlePosition" /\ b.side = "SELL"
                 /\ ~HasOpenPosition(b.accountId, b.marketId)
                 /\ req'[p] # req[p])
              => /\ \/ Replies(p, "500 No open position to sell")
                    \/ Replies(p, "500 query failed")
                 /\ TablesUnchanged
           /\ (Commits(p) /\ b.side = "SELL")
              => HasOpenPosition(b.accountId, b.marketId)
           /\ Replies(p, "500 No open position to sell") => TablesUnchanged
    ]_vars

\* a SELL was refused for want of an open position while the account held a
\* closed position
C5_Witness ==
  \E p \in Clients :
    /\ req[p].pc = "ready" /\ req[p].resp = "500 No open position to sell"
    /\ \E i \in 1..Len(positions) : ~positions[i].is_open

\* C6: a BUY whose notional quantity * fillPrice exceeds the balance the
\* check reads is answered 'Insufficient balance' in that step, before any
\* transaction begins: no write is pending and no table changes.
C6_BuyOverBalanceRejected ==
  [][ \A p \in Clients :
        LET b == req[p].body
        IN /\ (req[p].pc = "checkBalance" /\ req'[p] # req[p]
                 /\ b.quantity * req[p].fillPrice
                      > accounts[b.accountId].current_balance)
              => /\ Replies(p, "400 Insufficient balance")
                 /\ TablesUnchanged
           /\ Replies(p, "400 Insufficient balance")
              => /\ TablesUnchanged
                 /\ req[p].txOrder = <<>> /\ req[p].txBalance = <<>>
                 /\ req[p].txPos = <<>>
    ]_vars

\* a BUY was refused for insufficient balance
C6_Witness ==
  \E p \in Clients :
    req[p].pc = "ready" /\ req[p].resp = "400 Insufficient balance"

\* C7: the commit of a fill changes the balance of the order's account by
\* exactly -(quantity * fill price) for a BUY and +(quantity * fill price)
\* for a SELL, and leaves every other account's balance as it is.
C7_BalanceChangeIsNotional ==
  [][ \A p \in Clients :
        Commits(p) =>
          LET o == orders'[Len(orders')]
              notional == o.filled_quantity * o.avg_fill_price
          IN /\ Len(orders') = Len(orders) + 1
             /\ o.account_id = req[p].body.accountId
             /\ accounts'[o.account_id].current_balance =
                  accounts[o.account_id].current_balance
                    + (IF o.side = "BUY" THEN 0 - notional ELSE notional)
             /\ \A a \in Accounts \ {o.account_id} : accounts'[a] = accounts[a]
    ]_vars

\* a BUY and a SELL were filled and left the account with more cash than it
\* started with
C7_Witness ==
  /\ \E i \in 1..Len(orders) : orders[i].side = "BUY"
  /\ \E i \in 1..Len(orders) :
       /\ orders[i].side = "SELL"
       /\ accounts[orders[i].account_id].current_balance > InitialBalance

\* the position a committing SELL of client p acts on
SoldPosition(p, ex) ==
  /\ ex \in 1..Len(positions)
  /\ positions[ex].account_id = req[p].body.accountId
  /\ positions[ex].market_id = req[p].body.marketId
  /\ positions[ex].is_open

\* C8 as stated: a SELL of at least the open quantity leaves is_open = false
\* and quantity zero; a smaller SELL leaves is_open = true and the quantity
\* reduced by the sold amount.
C8_CloseZeroesQuantity ==
  [][ \A p \in Clients : \A ex \in 1..Len(positions) :
        (Commits(p) /\ req[p].body.side = "SELL" /\ SoldPosition(p, ex)) =>
          IF req[p].body.quantity >= positions[ex].quantity
          THEN ~positions'[ex].is_open /\ positions'[ex].quantity = 0
          ELSE /\ positions'[ex].is_open
               /\ positions'[ex].quantity
                    = positions[ex].quantity - req[p].body.quantity
    ]_vars

\* C8 amended: a SELL of at least the open quantity leaves is_open = false
\* and the stored quantity as it was; a smaller SELL leaves is_open = true
\* and the quantity reduced by exactly the sold amount.
C8_CloseKeepsQuantity ==
  [][ \A p \in Clients : \A ex \in 1..Len(positions) :
        (Commits(p) /\ req[p].body.side = "SELL" /\ SoldPosition(p, ex)) =>
          IF req[p].body.quantity >= positions[ex].quantity
          THEN /\ ~positions'[ex].is_open
               /\ positions'[ex].quantity = positions[ex].quantity
          ELSE /\ positions'[ex].is_open
               /\ positions'[ex].quantity
                    = positions[ex].quantity - req[p].body.quantity
    ]_vars

\* a position was reduced by a partial SELL and then closed by a SELL of all
\* that was left
C8_Witness ==
  \E i \in 1..Len(positions) :
    /\ ~positions[i].is_open
    /\ positions[i].quantity > 0
    /\ \E j, k \in 1..Len(trade_log) :
         j # k /\ trade_log[j].position_id = i /\ trade_log[k].position_id = i

\* C9 as stated: a SELL that closes a position adds
\* (fillPrice - avg_entry_price) * min(quantity, open quantity) to the
\* realized_pnl the position already has.
C9_CloseAddsPnlOfHeldUnits ==
  [][ \A p \in Clients : \A ex \in 1..Len(positions) :
        (Commits(p) /\ req[p].body.side = "SELL" /\ SoldPosition(p, ex)
           /\ req[p].body.quantity >= positions[ex].quantity) =>
          positions'[ex].realized_pnl =
            positions[ex].realized_pnl
              + (req[p].fillPrice - positions[ex].avg_entry_price)
                  * (IF req[p].body.quantity < positions[ex].quantity
                     THEN req[p].body.quantity ELSE positions[ex].quantity)
    ]_vars

\* C10 as stated: a LIMIT order is filled only if the reference price read
\* for it is at least as favourable as its limit price (BUY: reference <=
\* limit, SELL: reference >= limit).
C10_LimitFillsOnlyWhenFavourable ==
  [][ \A p \in Clients :
        (Commits(p) /\ req[p].body.type = "LIMIT") =>
          IF req[p].body.side = "BUY"
          THEN req[p].currentPrice <= req[p].body.price
          ELSE req[p].currentPrice >= req[p].body.price
    ]_vars

\* C11: an order for a market that has no candle is answered 'No price data
\* available for market' when it arrives: the arrival changes none of
\* accounts, orders, positions and trade_log and starts no processing, so
\* every request that is being processed, and every order row, is for a
\* market that has a candle.
C11_NoPriceDataRejected ==
  [][ /\ nreq' # nreq =>
          \/ \E p \in Clients :
               /\ req[p].pc = "ready" /\ req'[p].pc # "ready"
               /\ market_candles[req'[p].body.marketId] # <<>>
          \/ /\ \E m \in Markets : market_candles[m] = <<>>
             /\ \E p \in Clients :
                  /\ req[p].pc = "ready" /\ req'[p].pc = "ready"
                  /\ req'[p].resp = "400 No price data available for market"
                  /\ req'[p].txOrder = <<>> /\ req'[p].txBalance = <<>>
                  /\ \A q \in Clients \ {p} : req'[q] = req[q]
             /\ TablesUnchanged
      /\ \A p \in Clients :
           req'[p].pc # "ready" => market_candles[req'[p].body.marketId] # <<>>
      /\ \A i \in 1..Len(orders') : market_candles[orders'[i].market_id] # <<>>
    ]_vars

\* an order for a market without candles was refused while another order was
\* filled
C11_Witness ==
  \E p, q \in Clients :
    /\ req[p].pc = "ready"
    /\ req[p].resp = "400 No price data available for market"
    /\ req[q].pc = "ready" /\ req[q].resp = "201"
    /\ \E m \in Markets : market_candles[m] = <<>>

\* C12 as stated: a MARKET order fills at the reference price moved against
\* the order by the slippage, so a MARKET BUY is filled above the reference
\* price read for it and a MARKET SELL below it.
C12_MarketFillsWithAdverseSlippage ==
  [][ \A p \in Clients :
        (Commits(p) /\ req[p].body.type = "MARKET") =>
          LET o == orders'[Len(orders')]
          IN IF o.side = "BUY" THEN o.avg_fill_price > req[p].currentPrice
             ELSE o.avg_fill_price < req[p].currentPrice
    ]_vars

\* C13: every accepted order is filled fully and at once.  The commit of a
\* request adds one order row with status FILLED whose quantity and
\* filled_quantity are the requested quantity, and no row of orders ever has
\* another status (PENDING, PARTIALLY_FILLED, CANCELLED, REJECTED) or a
\* filled_quantity other than its quantity.
C13_AcceptedOrdersFullyFilled ==
  [][ /\ \A p \in Clients :
           Commits(p) =>
             /\ Len(orders') = Len(orders) + 1
             /\ orders'[Len(orders')].status = "FILLED"
             /\ orders'[Len(orders')].quantity = req[p].body.quantity
             /\ orders'[Len(orders')].filled_quantity = req[p].body.quantity
      /\ \A i \in 1..Len(orders') :
           /\ orders'[i].status = "FILLED"
           /\ orders'[i].filled_quantity = orders'[i].quantity
    ]_vars

\* a LIMIT order for more than one unit and a MARKET order were both accepted
C13_Witness ==
  /\ \E i \in 1..Len(orders) :
       orders[i].type = "LIMIT" /\ orders[i].quantity > 1
  /\ \E i \in 1..Len(orders) : orders[i].type = "MARKET"

\* C14: when a BUY commits on an (account, market) pair that has no open
\* position, positions gains exactly one row, open, with side LONG, the
\* order's quantity and the order's fill price as avg_entry_price; every row
\* there was, closed rows of the pair included, stays as it is.
C14_BuyOpensOneLongPosition ==
  [][ \A p \in Clients :
        LET b == req[p].body
        IN (Commits(p) /\ b.side = "BUY"
              /\ ~HasOpenPosition(b.accountId, b.marketId)) =>
             /\ Len(positions') = Len(positions) + 1
             /\ \A i \in 1..Len(positions) : positions'[i] = positions[i]
             /\ LET n == positions'[Len(positions')]
                IN /\ n.account_id = b.accountId /\ n.market_id = b.marketId
                   /\ n.is_open /\ n.side = "LONG"
                   /\ n.quantity = b.quantity
                   /\ n.avg_entry_price = orders'[Len(orders')].avg_fill_price
                   /\ n.avg_entry_price = req[p].fillPrice
                   /\ n.realized_pnl = 0
    ]_vars

\* a pair whose position was closed got a new open position by a later BUY
C14_Witness ==
  \E i, j \in 1..Len(positions) :
    /\ i < j
    /\ ~positions[i].is_open /\ positions[j].is_open
    /\ positions[i].account_id = positions[j].account_id
    /\ positions[i].market_id = positions[j].market_id

\* C15 as stated: a BUY on a pair with an open position adds the order
\* quantity to the position's quantity and sets avg_entry_price to exactly
\* (oldAvg * oldQty + fillPrice * qty) / (oldQty + qty).
C15_ExactWeightedAverage ==
  [][ \A p \in Clients : \A ex \in 1..Len(positions) :
        (Commits(p) /\ req[p].body.side = "BUY" /\ SoldPosition(p, ex)) =>
          /\ positions'[ex].quantity
               = positions[ex].quantity + req[p].body.quantity
          /\ positions'[ex].avg_entry_price * positions'[ex].quantity
               = (positions[ex].avg_entry_price * positions[ex].quantity)
                   + (req[p].fillPrice * req[p].body.quantity)
    ]_vars

\* C15 amended: a BUY on a pair with an open position adds the order
\* quantity to the position's quantity and sets avg_entry_price to
\* (oldAvg * oldQty + fillPrice * qty) / (oldQty + qty) rounded to the nearest
\* step of the DECIMAL(18,8) column (a half rounds up); nothing else of the
\* position and no other position changes.
C15_WeightedAverageRounded ==
  [][ \A p \in Clients : \A ex \in 1..Len(positions) :
        (Commits(p) /\ req[p].body.side = "BUY" /\ SoldPosition(p, ex)) =>
          LET newQty == positions[ex].quantity + req[p].body.quantity
              num == (positions[ex].avg_entry_price * positions[ex].quantity)
                       + (req[p].fillPrice * req[p].body.quantity)
              newAvg == positions'[ex].avg_entry_price
          IN /\ positions'[ex].quantity = newQty
             /\ ((2 * newAvg) - 1) * newQty <= 2 * num
             /\ 2 * num < ((2 * newAvg) + 1) * newQty
             /\ positions' = [positions EXCEPT ![ex] =
                   [@ EXCEPT !.quantity = newQty, !.avg_entry_price = newAvg]]
    ]_vars

\* a position was added to at a price that leaves the weighted average
\* between two steps of the column
C15_Witness ==
  \E i \in 1..Len(positions) : \E j, k \in 1..Len(orders) :
    /\ j < k
    /\ positions[i].is_open
    /\ orders[j].side = "BUY" /\ orders[k].side = "BUY"
    /\ positions[i].quantity = orders[j].quantity + orders[k].quantity
    /\ ((orders[j].avg_fill_price * orders[j].quantity)
          + (orders[k].avg_fill_price * orders[k].quantity))
         % positions[i].quantity # 0

\* the smaller and the larger of two prices
MinPrice(x, y) == IF x <= y THEN x ELSE y
MaxOfPrices(x, y) == IF x <= y THEN y ELSE x

\* C16: whenever a committed fill (BUY or SELL) changes a position that was
\* open, the position's new avg_entry_price lies between its old
\* avg_entry_price and the fill price, both included.
C16_AverageBetweenOldAndFill ==
  [][ \A p \in Clients : \A ex \in 1..Len(positions) :
        (Commits(p) /\ SoldPosition(p, ex) /\ positions'[ex] # positions[ex]) =>
          /\ MinPrice(positions[ex].avg_entry_price, req[p].fillPrice)
               <= positions'[ex].avg_entry_price
          /\ positions'[ex].avg_entry_price
               <= MaxOfPrices(positions[ex].avg_entry_price, req[p].fillPrice)
    ]_vars

\* a position bought at one price and added to at a lower one has its
\* average strictly between the two prices
C16_Witness ==
  \E i \in 1..Len(positions) : \E j, k \in 1..Len(orders) :
    /\ j < k
    /\ positions[i].is_open
    /\ orders[j].side = "BUY" /\ orders[k].side = "BUY"
    /\ orders[j].account_id = positions[i].account_id
    /\ orders[k].account_id = positions[i].account_id
    /\ orders[j].market_id = positions[i].market_id
    /\ orders[k].market_id = positions[i].market_id
    /\ positions[i].quantity = orders[j].quantity + orders[k].quantity
    /\ orders[k].avg_fill_price < positions[i].avg_entry_price
    /\ positions[i].avg_entry_price < orders[j].avg_fill_price

\* C17 as stated: each read-out of the unrealized PnL of the open position
\* (positions list, account, dashboard) is (currentPrice - avg_entry_price) *
\* quantity for side LONG or YES and (avg_entry_price - currentPrice) *
\* quantity for side SHORT or NO, currentPrice being the latest close of its
\* market, so the three agree.
C17_UnrealizedPnlBySide ==
  (Len(positions) = 1 /\ market_candles[positions[1].market_id] # <<>>) =>
    LET pos == positions[1]
        currentPrice == market_candles[pos.market_id][Len(market_candles[pos.market_id])]
        expected == IF pos.side \in {"LONG", "YES"}
                    THEN (currentPrice - pos.avg_entry_price) * pos.quantity
                    ELSE (pos.avg_entry_price - currentPrice) * pos.quantity
    IN /\ view.positions # <<>> => view.positions[1] = expected
       /\ view.account # <<>> => view.account[1] = expected
       /\ view.dashboard # <<>> => view.dashboard[1] = expected

\* a closing trade of the strategy is recorded in this step, with this pnl
ClosingTrade == strategy_state'.total_trades # strategy_state.total_trades
ClosingPnl == strategy_state'.total_pnl - strategy_state.total_pnl

\* C18 as stated: the strategy moves from ACTIVE to COOLDOWN only on a losing
\* close that makes at least maxConsecutiveLosses losing closes in a row, it
\* does so on the 3rd of a run begun while ACTIVE, and cooldown_until is then
\* now + cooldownHours; it is in COOLDOWN exactly while now < cooldown_until,
\* and it is reported (the dashboard's badge) as COOLDOWN exactly then.
C18_CooldownOnThirdLossUntilExpiry ==
  [][ /\ (~InCooldown(strategy_state, now) /\ InCooldown(strategy_state', now'))
           => /\ ClosingTrade /\ ClosingPnl < 0
              /\ strategy_state'.consecutive_losses >= maxConsecutiveLosses
              /\ strategy_state'.cooldown_until = <<now + cooldownHours>>
      /\ (ClosingTrade /\ ClosingPnl < 0 /\ ~InCooldown(strategy_state, now)
            /\ strategy_state'.consecutive_losses = maxConsecutiveLosses)
           => InCooldown(strategy_state', now')
      /\ (ClosingTrade /\ ClosingPnl >= 0)
           => strategy_state'.consecutive_losses = 0
      /\ StrategyBadge(strategy_state') = "COOLDOWN"
           <=> InCooldown(strategy_state', now')
    ]_vars

C23_TradeLogAppendOnly ==
  [][ /\ \/ trade_log' = trade_log
         \/ /\ Len(trade_log') = Len(trade_log) + 1
            /\ \A k \in 1..Len(trade_log) : trade_log'[k] = trade_log[k]
            /\ \E p \in Clients : \E ex \in 1..Len(positions) :
                 /\ Commits(p) /\ req[p].body.side = "SELL"
                 /\ SoldPosition(p, ex)
                 /\ trade_log'[Len(trade_log')].order_id = Len(orders')
                 /\ orders'[Len(orders')] = OrderRow(req[p].body, req[p].fillPrice)
                 /\ trade_log'[Len(trade_log')].position_id = ex
                 /\ trade_log'[Len(trade_log')].account_id = req[p].body.accountId
                 /\ trade_log'[Len(trade_log')].action = "POSITION_CLOSE"
      /\ \A p \in Clients : \A ex \in 1..Len(positions) :
           (Commits(p) /\ req[p].body.side = "SELL" /\ SoldPosition(p, ex)
              /\ req[p].body.quantity >= positions[ex].quantity)
             => Len(trade_log') = Len(trade_log) + 1
      /\ \A p \in Clients :
           (Commits(p) /\ req[p].body.side = "BUY") => trade_log' = trade_log
      /\ \A p \in Clients :
           (req[p].pc # "ready" /\ req'[p].pc = "ready" /\ req'[p].resp # "201")
             => trade_log' = trade_log
    ]_vars

\* the log holds the entries of two SELLs, the later of which closed the
\* position
C23_Witness ==
  /\ Len(trade_log) >= 2
  /\ trade_log[1].order_id < trade_log[2].order_id
  /\ \E i \in 1..Len(positions) :
       ~positions[i].is_open /\ trade_log[2].position_id = i

\* C24: the commit of a SELL of less than the open quantity adds exactly
\* (fillPrice - avg_entry_price) * sold quantity to the position's
\* realized_pnl and takes the sold quantity off its quantity; its
\* avg_entry_price, side and is_open, and every other field, stay as they are.
C24_PartialSellBooksSoldPortion ==
  [][ \A p \in Clients : \A ex \in 1..Len(positions) :
        (Commits(p) /\ req[p].body.side = "SELL" /\ SoldPosition(p, ex)
           /\ req[p].body.quantity < positions[ex].quantity) =>
          /\ positions'[ex].realized_pnl =
               positions[ex].realized_pnl
                 + ((req[p].fillPrice - positions[ex].avg_entry_price)
                      * req[p].body.quantity)
          /\ positions'[ex].avg_entry_price = positions[ex].avg_entry_price
          /\ positions'[ex].side = positions[ex].side
          /\ positions'[ex].is_open
          /\ positions'[ex] =
               [positions[ex] EXCEPT
                  !.quantity = @ - req[p].body.quantity,
                  !.realized_pnl = positions'[ex].realized_pnl]
    ]_vars

\* a position has been reduced twice, at a price other than its entry price,
\* and is still open
C24_Witness ==
  \E i \in 1..Len(positions) : \E j, k \in 1..Len(trade_log) :
    /\ positions[i].is_open
    /\ j < k
    /\ trade_log[j].position_id = i /\ trade_log[k].position_id = i
    /\ trade_log[j].pnl # 0
    /\ positions[i].realized_pnl = trade_log[j].pnl + trade_log[k].pnl

\* C25: a position with is_open = false is changed by no later step: all its
\* fields (realized_pnl, quantity, avg_entry_price, is_open among them) stay
\* as they are, and the commit of a BUY on an (account, market) pair whose
\* positions are all closed adds a new row, open, for that pair.
C25_ClosedPositionFrozen ==
  [][ /\ Len(positions') >= Len(positions)
      /\ \A i \in 1..Len(positions) :
           ~positions[i].is_open => positions'[i] = positions[i]
      /\ \A p \in Clients :
           (Commits(p) /\ req[p].body.side = "BUY"
              /\ ~HasOpenPosition(req[p].body.accountId, req[p].body.marketId)) =>
             /\ Len(positions') = Len(positions) + 1
             /\ positions'[Len(positions')].is_open
             /\ positions'[Len(positions')].account_id = req[p].body.accountId
             /\ positions'[Len(positions')].market_id = req[p].body.marketId
    ]_vars

\* a position was closed with a profit or loss, and a later BUY has opened a
\* second row for the same pair
C25_Witness ==
  \E i, j \in 1..Len(positions) :
    /\ i < j
    /\ ~positions[i].is_open
    /\ positions[i].realized_pnl # 0
    /\ positions[j].is_open
    /\ positions[j].account_id = positions[i].account_id
    /\ positions[j].market_id = positions[i].market_id

\* C28 as stated: the current_balance of every account, which starts
\* non-negative, is never negative, whatever create-order requests ran and
\* however they were interleaved.
C28_BalanceNeverNegative ==
  \A a \in Accounts : accounts[a].current_balance >= 0

\* the sum of realized_pnl over the closed positions of account a among the
\* first i rows
RECURSIVE ClosedRealizedPnl(_, _)
ClosedRealizedPnl(a, i) ==
  IF i = 0 THEN 0
  ELSE ClosedRealizedPnl(a, i - 1)
         + (IF positions[i].account_id = a /\ ~positions[i].is_open
            THEN positions[i].realized_pnl ELSE 0)

\* C29 as stated: whenever an account has no open position, its
\* current_balance minus its initial_balance is the sum of realized_pnl over
\* its closed positions.
C29_CashAndPnlConserved ==
  \A a \in Accounts :
    (\A i \in 1..Len(positions) :
        positions[i].account_id = a => ~positions[i].is_open) =>
      accounts[a].current_balance - accounts[a].initial_balance
        = ClosedRealizedPnl(a, Len(positions))

C22_EmptyEquityCurveRejected ==
  [][ \A id \in 1..Len(backtests) :
        (/\ reply' # reply
         /\ reply'.route = "POST /backtests/:id/monte-carlo"
         /\ reply'.id = id
         /\ backtests[id] # <<>>
         /\ \/ backtests[id][1].trade_count = 0
            \/ backtests[id][1].equity_curve = NullColumn
            \/ backtests[id][1].equity_curve = 0) =>
          /\ reply'.result = "No equity curve available for Monte Carlo"
          /\ backtests' = backtests
    ]_vars

\* C26: a cancel request turns the status of the order it names into
\* CANCELLED, and answers with the row, exactly when that status is PENDING;
\* otherwise it answers 404 and changes nothing. No step changes any other
\* field or row, so an order that is FILLED, CANCELLED or REJECTED (or OPEN or
\* PARTIALLY_FILLED) keeps its status.
C26_CancelOnlyPending ==
  [][ /\ Len(orders') = Len(orders)
      /\ \A i \in 1..Len(orders) :
           /\ orders[i].status \in {"FILLED", "CANCELLED", "REJECTED"} =>
                orders'[i] = orders[i]
           /\ \/ orders'[i] = orders[i]
              \/ /\ orders[i].status = "PENDING"
                 /\ orders'[i] = [orders[i] EXCEPT !.status = "CANCELLED"]
                 /\ reply'.route = "DELETE /orders/:id" /\ reply'.id = i
      /\ (reply' # reply /\ reply'.route = "DELETE /orders/:id") =>
           IF reply'.id \in 1..Len(orders) /\ orders[reply'.id].status = "PENDING"
           THEN /\ orders'[reply'.id].status = "CANCELLED"
                /\ reply'.result = "CANCELLED"
           ELSE /\ orders' = orders
                /\ reply'.result = "404 Order not found or cannot be cancelled"
    ]_vars

\* a cancel request on a FILLED order was refused, after another order had
\* been cancelled
C26_Witness ==
  /\ reply.route = "DELETE /orders/:id"
  /\ reply.result = "404 Order not found or cannot be cancelled"
  /\ reply.id \in 1..Len(orders)
  /\ orders[reply.id].status = "FILLED"
  /\ \E j \in 1..Len(orders) : orders[j].status = "CANCELLED"

\* the columns among adx and rsi of an indicator row that hold a number
\* outside [SanityMin, SanityMax]
OffendingColumns(row) ==
  {c \in {"adx", "rsi"} :
     row[c].kind = "number" /\ (row[c].n < SanityMin \/ row[c].n > SanityMax)}

\* C27: a reply of GET /indicators for a row carries the row as it was read;
\* its sanity is "warning" if adx or rsi is a number outside [0, 100] and "ok"
\* otherwise, never an error; and it has one alert per offending value, for
\* ADX before RSI.
C27_SanityWarnsNeverFails ==
  [][ (reply' # reply /\ reply'.route = "GET /indicators" /\ indicators # <<>>) =>
        /\ reply'.result.indicators = indicators
        /\ indicators' = indicators
        /\ reply'.result.sanity =
             IF OffendingColumns(indicators[1]) = {} THEN "ok" ELSE "warning"
        /\ Len(reply'.result.alerts) = Cardinality(OffendingColumns(indicators[1]))
        /\ \A k \in 1..Len(reply'.result.alerts) :
             \E c \in OffendingColumns(indicators[1]) :
               /\ reply'.result.alerts[k].name = (IF c = "adx" THEN "ADX" ELSE "RSI")
               /\ reply'.result.alerts[k].value = indicators[1][c].n
        /\ \A j, k \in 1..Len(reply'.result.alerts) :
             j # k => reply'.result.alerts[j].name # reply'.result.alerts[k].name
    ]_vars

\* a row with adx below the range and rsi above it was returned with a warning
\* and two alerts
C27_Witness ==
  /\ reply.route = "GET /indicators"
  /\ reply.result.sanity = "warning"
  /\ Len(reply.result.alerts) = 2
  /\ reply.result.indicators = indicators
  /\ indicators[1].adx.n < SanityMin
  /\ indicators[1].rsi.n > SanityMax

\* C30 as stated: after every step there is at most one strategy instance
\* with is_active = true per (account, strategy), and no step of an activate
\* or deactivate request changes a strategy_state row that exists.
C30_OneActiveInstanceStateKept ==
  [][ /\ \A a \in Accounts, s \in AVAILABLE_STRATEGIES :
           Cardinality(ActiveInstanceIds(strategy_instances', a, s)) <= 1
      /\ act' # act =>
           \A a \in Accounts, s \in AVAILABLE_STRATEGIES :
             strategy_state_rows[a, s] # <<>> =>
               strategy_state_rows'[a, s] = strategy_state_rows[a, s]
    ]_vars

====
